---- MODULE Spec2Model ----
(***************************************************************************)
(* A model of the quadratic-polynomial parser and solver of src/main.rs:   *)
(* Subpolynomial::from, Polynomial::from, Polynomial::roots and main.      *)
(*                                                                         *)
(* Strings are sequences of one-character strings.  f64 values are         *)
(* modelled bit-exactly (IEEE 754 binary64, round to nearest, ties to      *)
(* even): a finite value is sign, 53-bit mantissa and exponent, the        *)
(* mantissa kept as a big natural because it does not fit a 32-bit         *)
(* integer.                                                                *)
(***************************************************************************)
EXTENDS Integers, Sequences, FiniteSets, TLC

(***************************************************************************)
(* Big naturals: little-endian sequences of limbs in base 2^15, without    *)
(* high zero limbs; zero is the empty sequence.  They carry the mantissas  *)
(* of the f64 arithmetic and the digits of a decimal literal.              *)
(***************************************************************************)
Base == 2^15

Limb(x, i) == IF i <= Len(x) THEN x[i] ELSE 0

RECURSIVE BigNorm(_)
BigNorm(x) ==
    IF x = <<>> THEN x
    ELSE IF x[Len(x)] = 0 THEN BigNorm(SubSeq(x, 1, Len(x) - 1)) ELSE x

RECURSIVE BigFromNat(_)
BigFromNat(n) == IF n = 0 THEN <<>> ELSE <<n % Base>> \o BigFromNat(n \div Base)

RECURSIVE AddC(_, _, _, _)
AddC(x, y, i, c) ==
    IF i > Len(x) /\ i > Len(y)
    THEN IF c = 0 THEN <<>> ELSE <<c>>
    ELSE LET t == Limb(x, i) + Limb(y, i) + c
         IN  <<t % Base>> \o AddC(x, y, i + 1, t \div Base)

BigAdd(x, y) == AddC(x, y, 1, 0)

RECURSIVE SubB(_, _, _, _)
SubB(x, y, i, b) ==
    IF i > Len(x) THEN <<>>
    ELSE LET t == x[i] - Limb(y, i) - b
         IN  IF t < 0 THEN <<t + Base>> \o SubB(x, y, i + 1, 1)
                      ELSE <<t>> \o SubB(x, y, i + 1, 0)

\* x - y for x >= y
BigSub(x, y) == BigNorm(SubB(x, y, 1, 0))

RECURSIVE CmpFrom(_, _, _)
CmpFrom(x, y, i) ==
    IF i = 0 THEN 0
    ELSE IF x[i] > y[i] THEN 1
    ELSE IF x[i] < y[i] THEN -1
    ELSE CmpFrom(x, y, i - 1)

\* -1, 0 or 1 as x < y, x = y or x > y
BigCmp(x, y) ==
    IF Len(x) > Len(y) THEN 1
    ELSE IF Len(x) < Len(y) THEN -1
    ELSE CmpFrom(x, y, Len(x))

RECURSIVE MulC(_, _, _, _)
MulC(x, k, i, c) ==
    IF i > Len(x)
    THEN IF c = 0 THEN <<>> ELSE <<c>>
    ELSE LET t == x[i] * k + c
         IN  <<t % Base>> \o MulC(x, k, i + 1, t \div Base)

\* x * k for a limb k < Base
BigMulSmall(x, k) == IF k = 0 THEN <<>> ELSE MulC(x, k, 1, 0)

ZeroLimbs(n) == [j \in 1..n |-> 0]

RECURSIVE MulAcc(_, _, _)
MulAcc(x, y, i) ==
    IF i > Len(y) THEN <<>>
    ELSE BigAdd(IF y[i] = 0 THEN <<>> ELSE ZeroLimbs(i - 1) \o BigMulSmall(x, y[i]),
                MulAcc(x, y, i + 1))

BigMul(x, y) == IF x = <<>> \/ y = <<>> THEN <<>> ELSE MulAcc(x, y, 1)

\* x * 2^n
BigShl(x, n) ==
    IF x = <<>> THEN <<>>
    ELSE ZeroLimbs(n \div 15) \o BigMulSmall(x, 2^(n % 15))

\* floor(x / 2^n)
BigShr(x, n) ==
    LET d == n \div 15
        b == n % 15
        L == Len(x) - d
    IN  IF L <= 0 THEN <<>>
        ELSE BigNorm([j \in 1..L |->
                 (x[j + d] \div 2^b) + (Limb(x, j + d + 1) % 2^b) * 2^(15 - b)])

RECURSIVE NatBitLen(_)
NatBitLen(n) == IF n = 0 THEN 0 ELSE 1 + NatBitLen(n \div 2)

BigBitLen(x) == IF x = <<>> THEN 0 ELSE 15 * (Len(x) - 1) + NatBitLen(x[Len(x)])

\* bit i (bit 0 is the lowest) of x
BigBit(x, i) == (Limb(x, i \div 15 + 1) \div 2^(i % 15)) % 2

\* the n lowest bits of x are all zero
BigLowZero(x, n) == \A i \in 0..(n - 1) : BigBit(x, i) = 0

(* Binary long division, one limb of the dividend (15 bits) at a time: the *)
(* inner loop brings down k bits from bit i and collects the quotient     *)
(* bits of that limb in ql.                                               *)
RECURSIVE DivBits(_, _, _, _, _, _)
\* one bit: r2 is the remainder with the next bit of n brought down
DivBit(n, d, i, k, ql, r2) ==
    IF BigCmp(r2, d) >= 0
    THEN DivBits(n, d, i - 1, k - 1, 2 * ql + 1, BigSub(r2, d))
    ELSE DivBits(n, d, i - 1, k - 1, 2 * ql, r2)

DivBits(n, d, i, k, ql, r) ==
    IF k = 0 THEN [ql |-> ql, r |-> r]
    ELSE DivBit(n, d, i, k, ql, BigNorm(AddC(r, r, 1, BigBit(n, i))))

\* the loop state after limb st.j, s being the result of DivBits on that limb
LimbDone(st, s) == [j |-> st.j - 1, q |-> <<s.ql>> \o st.q, r |-> s.r]

DivLimb(n, d, st) == LimbDone(st, DivBits(n, d, 15 * st.j - 1, 15, 0, st.r))

\* st = [j, q, r]: limbs above j are divided, with quotient limbs q and remainder r
RECURSIVE DivLimbs(_, _, _)
DivLimbs(n, d, st) ==
    IF st.j = 0 THEN [q |-> BigNorm(st.q), r |-> st.r]
    ELSE DivLimbs(n, d, DivLimb(n, d, st))

\* quotient and remainder of n by d > 0
BigDivMod(n, d) == DivLimbs(n, d, [j |-> Len(n), q |-> <<>>, r |-> <<>>])

(* Digit-by-digit binary square root, k steps at a time. *)
RECURSIVE SqrtInner(_, _, _, _)
\* one step: t is res + bit
SqrtStep(num, res, bit, k, t) ==
    IF BigCmp(num, t) >= 0
    THEN SqrtInner(BigSub(num, t), BigAdd(BigShr(res, 1), bit), BigShr(bit, 2), k - 1)
    ELSE SqrtInner(num, BigShr(res, 1), BigShr(bit, 2), k - 1)

SqrtInner(num, res, bit, k) ==
    IF k = 0 \/ bit = <<>> THEN [num |-> num, res |-> res, bit |-> bit]
    ELSE SqrtStep(num, res, bit, k, BigAdd(res, bit))

RECURSIVE SqrtOuter(_)
SqrtOuter(st) ==
    IF st.bit = <<>> THEN [q |-> st.res, r |-> st.num]
    ELSE SqrtOuter(SqrtInner(st.num, st.res, st.bit, 8))

\* q = floor(sqrt(n)) and r = n - q^2 for n > 0
BigSqrtRem(n) ==
    SqrtOuter([num |-> n, res |-> <<>>,
               bit |-> BigShl(<<1>>, 2 * ((BigBitLen(n) - 1) \div 2))])

(***************************************************************************)
(* f64: IEEE 754 binary64.  A finite value is (-1)^s * m * 2^e with the    *)
(* mantissa m a big natural of exactly MantBits bits (fewer only for zero  *)
(* and for subnormals, whose e is MinExp); k tells finite values from the  *)
(* infinities and NaN.  Every operation rounds to nearest, ties to even.   *)
(***************************************************************************)
MantBits == 53
MaxExp == 1023
MinExp == -1074

FNaN == [k |-> "nan", s |-> 0, m |-> <<>>, e |-> 0]
FInf(s) == [k |-> "inf", s |-> s, m |-> <<>>, e |-> 0]
FZero(s) == [k |-> "fin", s |-> s, m |-> <<>>, e |-> 0]
FFin(s, m, e) == [k |-> "fin", s |-> s, m |-> m, e |-> e]

\* f64::is_finite
IsFinite(x) == x.k = "fin"

FIsZero(x) == x.k = "fin" /\ x.m = <<>>

Max(a, b) == IF a >= b THEN a ELSE b

\* the f64 nearest to (-1)^s * M * 2^E, for a big natural M > 0
\* a value beyond the largest finite one is an infinity
FOverflow(r) ==
    IF r.m # <<>> /\ r.e + BigBitLen(r.m) - 1 > MaxExp THEN FInf(r.s) ELSE r

\* the rounded mantissa q at exponent eT; rounding up may have carried into bit 53
FCarry(s, q, eT) ==
    IF q = <<>> THEN FZero(s)
    ELSE IF BigBitLen(q) > MantBits THEN FFin(s, BigShr(q, 1), eT + 1)
    ELSE FFin(s, q, eT)

\* round up: the first dropped bit is set and the rest is not an even tie
RoundsUp(M, sh, q) ==
    BigBit(M, sh - 1) = 1 /\ (~BigLowZero(M, sh - 1) \/ BigBit(q, 0) = 1)

\* drop the sh > 0 lowest bits of M, q being M without them
FDropBits(s, M, sh, eT, q) ==
    FCarry(s, IF RoundsUp(M, sh, q) THEN BigAdd(q, <<1>>) ELSE q, eT)

\* M * 2^E at the exponent eT of the result
FRoundAt(s, M, E, eT) ==
    IF eT <= E THEN FFin(s, BigShl(M, E - eT), eT)
    ELSE FDropBits(s, M, eT - E, eT, BigShr(M, eT - E))

FRound(s, M, E) ==
    FOverflow(FRoundAt(s, M, E, Max(E + BigBitLen(M) - MantBits, MinExp)))

\* the f64 of a small integer literal such as 4_f64
FFromInt(n) ==
    IF n = 0 THEN FZero(0)
    ELSE FRound(IF n < 0 THEN 1 ELSE 0, BigFromNat(IF n < 0 THEN -n ELSE n), 0)

\* unary minus
FNeg(x) == IF x.k = "nan" THEN x ELSE [x EXCEPT !.s = 1 - x.s]

\* (-1)^sx * X * 2^E + (-1)^sy * Y * 2^E, c being the comparison of X with Y
FAddCmp(sx, sy, X, Y, E, c) ==
    IF sx # sy /\ c = 0 THEN FZero(0)
    ELSE FRound(IF sx = sy \/ c > 0 THEN sx ELSE sy,
                IF sx = sy THEN BigAdd(X, Y)
                ELSE IF c > 0 THEN BigSub(X, Y) ELSE BigSub(Y, X),
                E)

FAddAligned(sx, sy, X, Y, E) == FAddCmp(sx, sy, X, Y, E, BigCmp(X, Y))

(* The sum of two finite non-zero values, x the one with the larger        *)
(* exponent.  A y more than 64 binary places below x only decides the      *)
(* rounding, and is replaced by one unit three places below x.             *)
FAddFin(x, y) ==
    LET far == x.e - y.e > 64
    IN  FAddAligned(x.s, y.s,
                    BigShl(x.m, IF far THEN 3 ELSE x.e - y.e),
                    IF far THEN <<1>> ELSE y.m,
                    IF far THEN x.e - 3 ELSE y.e)

\* x + y
FAdd(x, y) ==
    IF x.k = "nan" \/ y.k = "nan" THEN FNaN
    ELSE IF x.k = "inf" /\ y.k = "inf" THEN (IF x.s = y.s THEN x ELSE FNaN)
    ELSE IF x.k = "inf" THEN x
    ELSE IF y.k = "inf" THEN y
    ELSE IF x.m = <<>> /\ y.m = <<>> THEN FZero(IF x.s = y.s THEN x.s ELSE 0)
    ELSE IF x.m = <<>> THEN y
    ELSE IF y.m = <<>> THEN x
    ELSE FAddFin(IF x.e >= y.e THEN x ELSE y, IF x.e >= y.e THEN y ELSE x)

\* x - y
FSub(x, y) == FAdd(x, FNeg(y))

Xor(a, b) == IF a = b THEN 0 ELSE 1

(* The f64 nearest to (-1)^s * (qr.q + f) * 2^E, where the fraction f is   *)
(* zero if qr.r is zero and 0 < f < 1 otherwise: q carries enough bits for *)
(* one sticky bit below it to decide the rounding.                         *)
FSticky(s, qr, E) ==
    FRound(s, BigNorm(AddC(qr.q, qr.q, 1, IF qr.r = <<>> THEN 0 ELSE 1)), E - 1)

FRatioShifted(s, N, D, E, sh) == FSticky(s, BigDivMod(BigShl(N, sh), D), E - sh)

\* the f64 nearest to (-1)^s * (N / D) * 2^E, for big naturals N, D > 0
FRatio(s, N, D, E) == FRatioShifted(s, N, D, E, Max(0, 56 + BigBitLen(D) - BigBitLen(N)))

\* the square root of x.m * 2^x.e, s0 the shift that gives the root 55 bits
FSqrtShifted(x, s0) ==
    FSticky(0, BigSqrtRem(BigShl(x.m, s0 + ((x.e - s0) % 2))),
            (x.e - (s0 + ((x.e - s0) % 2))) \div 2)

\* x * y
FMul(x, y) ==
    IF x.k = "nan" \/ y.k = "nan" THEN FNaN
    ELSE IF x.k = "inf" \/ y.k = "inf"
         THEN (IF FIsZero(x) \/ FIsZero(y) THEN FNaN ELSE FInf(Xor(x.s, y.s)))
    ELSE IF x.m = <<>> \/ y.m = <<>> THEN FZero(Xor(x.s, y.s))
    ELSE FRound(Xor(x.s, y.s), BigMul(x.m, y.m), x.e + y.e)

\* x / y
FDiv(x, y) ==
    IF x.k = "nan" \/ y.k = "nan" THEN FNaN
    ELSE IF x.k = "inf" THEN (IF y.k = "inf" THEN FNaN ELSE FInf(Xor(x.s, y.s)))
    ELSE IF y.k = "inf" THEN FZero(Xor(x.s, y.s))
    ELSE IF y.m = <<>> THEN (IF x.m = <<>> THEN FNaN ELSE FInf(Xor(x.s, y.s)))
    ELSE IF x.m = <<>> THEN FZero(Xor(x.s, y.s))
    ELSE FRatio(Xor(x.s, y.s), x.m, y.m, x.e - y.e)

\* f64::sqrt
FSqrt(x) ==
    IF x.k = "nan" THEN FNaN
    ELSE IF FIsZero(x) THEN x
    ELSE IF x.s = 1 THEN FNaN
    ELSE IF x.k = "inf" THEN x
    ELSE FSqrtShifted(x, Max(0, 110 - BigBitLen(x.m)))

\* x == y on f64: NaN equals nothing, the two zeros are equal
FEq(x, y) ==
    /\ x.k # "nan"
    /\ y.k # "nan"
    /\ \/ x = y
       \/ FIsZero(x) /\ FIsZero(y)

\* x < 0.0
FIsNegative(x) == x.k # "nan" /\ x.s = 1 /\ ~FIsZero(x)

(***************************************************************************)
(* Characters and the two standard-library parsers the program calls.      *)
(* The characters of the model are the ones poly_validator allows, and "*" *)
(* as a character it rejects.                                              *)
(***************************************************************************)
Digits == {"0", "1", "2", "3", "4", "5", "6", "7", "8", "9"}

Signs == {"+", "-"}

DigitVal(c) ==
    CASE c = "0" -> 0 [] c = "1" -> 1 [] c = "2" -> 2 [] c = "3" -> 3
      [] c = "4" -> 4 [] c = "5" -> 5 [] c = "6" -> 6 [] c = "7" -> 7
      [] c = "8" -> 8 [] c = "9" -> 9

\* char::is_alphanumeric, on the characters of the model
IsAlphanumeric(c) == c \in Digits \/ c = "x"

\* x * 10 + d for a digit d
BigMulAdd10(x, d) ==
    IF x = <<>> THEN BigFromNat(d) ELSE BigNorm(AddC(BigMulSmall(x, 10), <<d>>, 1, 0))

\* the big natural written by a sequence of decimal digits
RECURSIVE BigFromDigits(_)
BigFromDigits(ds) ==
    IF ds = <<>> THEN <<>>
    ELSE BigMulAdd10(BigFromDigits(SubSeq(ds, 1, Len(ds) - 1)), DigitVal(ds[Len(ds)]))

RECURSIVE BigPow10(_)
BigPow10(k) == IF k = 0 THEN <<1>> ELSE BigMulSmall(BigPow10(k - 1), 10)

\* the f64 nearest to (-1)^s * N / 10^k
FFromDecimal(s, N, k) ==
    IF N = <<>> THEN FZero(s)
    ELSE IF k = 0 THEN FRound(s, N, 0)
    ELSE FRatio(s, N, BigPow10(k), 0)

(* str::parse::<f64>: an optional sign, then decimal digits with at most   *)
(* one ".", at least one digit in all; the value is rounded to the nearest *)
(* f64.  (Exponents, "inf" and "nan" need letters the model has not.)      *)
IsSigned(str) == Len(str) > 0 /\ str[1] \in Signs

\* the number after the sign: dots is the set of positions of "." in body
ParseDecimal(s, body, dots) ==
    IF /\ \A j \in 1..Len(body) : body[j] \in Digits \/ body[j] = "."
       /\ Cardinality(dots) <= 1
       /\ \E j \in 1..Len(body) : body[j] \in Digits
    THEN [ok |-> TRUE,
          v  |-> FFromDecimal(s, BigFromDigits(SelectSeq(body, LAMBDA c : c \in Digits)),
                              IF dots = {} THEN 0
                              ELSE Len(body) - (CHOOSE j \in dots : TRUE))]
    ELSE [ok |-> FALSE, v |-> FNaN]

ParseSigned(s, body) == ParseDecimal(s, body, {j \in 1..Len(body) : body[j] = "."})

ParseF64(str) ==
    ParseSigned(IF IsSigned(str) /\ str[1] = "-" THEN 1 ELSE 0,
                IF IsSigned(str) THEN SubSeq(str, 2, Len(str)) ELSE str)

U8Max == 255

\* the number written by decimal digits, or U8Max + 1 once it exceeds U8Max
RECURSIVE U8Digits(_)
U8Digits(ds) ==
    IF ds = <<>> THEN 0
    ELSE LET front == U8Digits(SubSeq(ds, 1, Len(ds) - 1))
             v     == front * 10 + DigitVal(ds[Len(ds)])
         IN  IF front > U8Max \/ v > U8Max THEN U8Max + 1 ELSE v

RECURSIVE DecimalWide(_)
DecimalWide(ds) ==
    IF ds = <<>> THEN 0
    ELSE IF Len(ds) > 4 THEN 10000
    ELSE 10 * DecimalWide(SubSeq(ds, 1, Len(ds) - 1)) + DigitVal(ds[Len(ds)])

(* str::parse::<u8>: an optional "+", then at least one decimal digit and  *)
(* nothing else; a value above 255 is an error.                            *)
\* ParseU8Digits for a wider integer type: no upper limit
ParseWideDigits(body) ==
    IF /\ Len(body) >= 1
       /\ \A j \in 1..Len(body) : body[j] \in Digits
    THEN [ok |-> TRUE, v |-> DecimalWide(body)]
    ELSE [ok |-> FALSE, v |-> 0]

ParseU8Digits(body) ==
    IF /\ Len(body) >= 1
       /\ \A j \in 1..Len(body) : body[j] \in Digits
       /\ U8Digits(body) <= U8Max
    THEN [ok |-> TRUE, v |-> U8Digits(body)]
    ELSE [ok |-> FALSE, v |-> 0]

ParseU8(str) ==
    ParseU8Digits(IF Len(str) > 0 /\ str[1] = "+" THEN SubSeq(str, 2, Len(str)) ELSE str)

(***************************************************************************)
(* Subpolynomial::from                                                     *)
(***************************************************************************)
\* str::find: the 0-based index of the first c in str, or -1 for None
Find(str, c) ==
    LET hits == {j \in 1..Len(str) : str[j] = c}
    IN  IF hits = {} THEN -1
        ELSE (CHOOSE j \in hits : \A h \in hits : j <= h) - 1

\* lines 51-54: a missing coefficent, or a bare sign, gets a "1"
ImplicitCoefficent(coefficent) ==
    IF coefficent = <<>> \/ coefficent = <<"-">> \/ coefficent = <<"+">>
    THEN coefficent \o <<"1">>
    ELSE coefficent

\* ImplicitDegree with its two branches exchanged
ImplicitDegreeSwapped(coefficent_end_index, len) ==
    IF coefficent_end_index = len THEN <<"1">> ELSE <<"0">>

\* lines 57-63: the degree string of a term without a degree substring
ImplicitDegree(coefficent_end_index, len) ==
    IF coefficent_end_index = len THEN <<"0">> ELSE <<"1">>

\* Unwrap with unwrap_or defaults in place of the two unwraps
UnwrapOrDefault(c, d) ==
    [ok |-> TRUE, coefficent |-> IF c.ok THEN c.v ELSE FZero(0),
     degree |-> IF d.ok THEN d.v ELSE 0]

\* lines 65-69: the Subpolynomial of the two parse results, unless an unwrap panics
Unwrap(c, d) ==
    IF c.ok /\ d.ok
    THEN [ok |-> TRUE, coefficent |-> c.v, degree |-> d.v]
    ELSE [ok |-> FALSE, coefficent |-> FNaN, degree |-> 0]

\* the result of Subpolynomial::from; ok is FALSE when an unwrap panics
SubpolynomialFrom(subpoly) ==
    LET x_index == Find(subpoly, "x")
        coefficent_end_index == IF x_index = -1 THEN Len(subpoly) ELSE x_index
        caret == Find(subpoly, "^")
        degree_start_index ==
            IF caret = -1 \/ caret + 1 >= Len(subpoly) THEN -1 ELSE caret + 1
        coefficent == ImplicitCoefficent(SubSeq(subpoly, 1, coefficent_end_index))
        degree ==
            IF degree_start_index # -1
            THEN SubSeq(subpoly, degree_start_index + 1, Len(subpoly))
            ELSE ImplicitDegree(coefficent_end_index, Len(subpoly))
    IN  Unwrap(ParseF64(coefficent), ParseU8(degree))

(***************************************************************************)
(* Polynomial::from: the scan loop and the fold                            *)
(***************************************************************************)
\* value.into().replace(" ", "").replace("\t", "")
Strip(value) == SelectSeq(SelectSeq(value, LAMBDA c : c # " "), LAMBDA c : c # "\t")

\* SignedBuffer with the look-back one place short: it lands inside the buffer
SignedBufferShort(polynomial, i, buffer) ==
    LET index == i - Len(buffer)
    IN  IF index >= 0 /\ index < Len(polynomial) /\ polynomial[index + 1] \in Signs
        THEN <<polynomial[index + 1]>> \o buffer
        ELSE buffer

(* lines 92-100: the buffer with the character before it put in front     *)
(* when that character is a sign; i is the 0-based index of the loop.      *)
SignedBuffer(polynomial, i, buffer) ==
    LET index == i - (Len(buffer) + 1)
    IN  IF index >= 0 /\ polynomial[index + 1] \in Signs
        THEN <<polynomial[index + 1]>> \o buffer
        ELSE buffer

\* IsTermChar without the "."
IsTermCharNoDot(c) == IsAlphanumeric(c) \/ c = "^"

\* line 109: the characters that are pushed onto the buffer
IsTermChar(c) == IsAlphanumeric(c) \/ c = "^" \/ c = "."

(* One iteration of `for i in 0..=polynomial.len()`, on the loop state     *)
(* st = [buffer, vector, ok]; ok turns FALSE when Subpolynomial::from      *)
(* panics.                                                                 *)
\* line 90: a sign or the end of the string, and a buffer that is not empty
AtBoundary(polynomial, i, buffer) ==
    /\ i >= Len(polynomial) \/ polynomial[i + 1] \in Signs
    /\ buffer # <<>>

\* lines 107-112: the character at i, if there is one, pushed onto buffer
PushChar(polynomial, i, buffer) ==
    IF i < Len(polynomial) /\ IsTermChar(polynomial[i + 1])
    THEN Append(buffer, polynomial[i + 1])
    ELSE buffer

\* lines 91-104: sub is the Subpolynomial of the signed buffer
Flush(polynomial, i, st, sub) ==
    IF ~sub.ok THEN [buffer |-> st.buffer, vector |-> st.vector, ok |-> FALSE]
    ELSE [buffer |-> PushChar(polynomial, i, <<>>),
          vector |-> Append(st.vector, [coefficent |-> sub.coefficent,
                                        degree |-> sub.degree]),
          ok     |-> TRUE]

ScanBody(polynomial, i, st) ==
    IF AtBoundary(polynomial, i, st.buffer)
    THEN Flush(polynomial, i, st, SubpolynomialFrom(SignedBuffer(polynomial, i, st.buffer)))
    ELSE [buffer |-> PushChar(polynomial, i, st.buffer), vector |-> st.vector, ok |-> TRUE]

\* SumDegree with the accumulator overwritten, not added to
RECURSIVE SumDegreeLast(_, _)
SumDegreeLast(vector, d) ==
    IF vector = <<>> THEN FZero(0)
    ELSE IF vector[Len(vector)].degree = d THEN vector[Len(vector)].coefficent
    ELSE SumDegreeLast(SubSeq(vector, 1, Len(vector) - 1), d)

\* SumDegree with every degree above 2 counted as 2
RECURSIVE SumDegreeCapped(_, _)
SumDegreeCapped(vector, d) ==
    IF vector = <<>> THEN FZero(0)
    ELSE IF vector[Len(vector)].degree = d \/ (d = 2 /\ vector[Len(vector)].degree > 2)
         THEN FAdd(SumDegreeCapped(SubSeq(vector, 1, Len(vector) - 1), d),
                   vector[Len(vector)].coefficent)
    ELSE SumDegreeCapped(SubSeq(vector, 1, Len(vector) - 1), d)

\* vector.iter().filter(|x| x.degree == d).fold(0_f64, |acc, x| acc + x.coefficent)
RECURSIVE SumDegree(_, _)
SumDegree(vector, d) ==
    IF vector = <<>> THEN FZero(0)
    ELSE LET acc  == SumDegree(SubSeq(vector, 1, Len(vector) - 1), d)
             last == vector[Len(vector)]
         IN  IF last.degree = d THEN FAdd(acc, last.coefficent) ELSE acc

\* BuildPolynomial with the filters of a and c exchanged
BuildPolynomialReversed(vector) ==
    [a |-> SumDegree(vector, 0), b |-> SumDegree(vector, 1), c |-> SumDegree(vector, 2)]

\* the struct literal that ends Polynomial::from
BuildPolynomial(vector) ==
    [a |-> SumDegree(vector, 2), b |-> SumDegree(vector, 1), c |-> SumDegree(vector, 0)]

RECURSIVE ScanLoop(_, _, _)
ScanLoop(polynomial, i, st) ==
    IF ~st.ok \/ i > Len(polynomial) THEN st
    ELSE ScanLoop(polynomial, i + 1, ScanBody(polynomial, i, st))

NoPoly == [a |-> FNaN, b |-> FNaN, c |-> FNaN]

\* lines 115-129 on the final loop state
Fold(st) ==
    IF st.ok THEN [ok |-> TRUE, poly |-> BuildPolynomial(st.vector)]
    ELSE [ok |-> FALSE, poly |-> NoPoly]

\* Polynomial::from as a function of its argument: ok is FALSE when it panics
PolynomialFrom(value) ==
    Fold(ScanLoop(Strip(value), 0, [buffer |-> <<>>, vector |-> <<>>, ok |-> TRUE]))

(***************************************************************************)
(* Polynomial::roots, poly_validator and main                              *)
(***************************************************************************)
\* Discriminant with the sign of 4ac wrong
DiscriminantPlus(p) == FAdd(FMul(p.b, p.b), FMul(FMul(FFromInt(4), p.a), p.c))

\* lines 13 and 15: self.b * self.b - 4_f64 * self.a * self.c
Discriminant(p) == FSub(FMul(p.b, p.b), FMul(FMul(FFromInt(4), p.a), p.c))

\* Roots with the two signs of the square root exchanged
RootsSwapped(p) ==
    [root1 |-> FDiv(FSub(FNeg(p.b), FSqrt(Discriminant(p))), FMul(FFromInt(2), p.a)),
     root2 |-> FDiv(FAdd(FNeg(p.b), FSqrt(Discriminant(p))), FMul(FFromInt(2), p.a))]

\* lines 11-17: Polynomial::roots
Roots(p) ==
    [root1 |-> FDiv(FAdd(FNeg(p.b), FSqrt(Discriminant(p))), FMul(FFromInt(2), p.a)),
     root2 |-> FDiv(FSub(FNeg(p.b), FSqrt(Discriminant(p))), FMul(FFromInt(2), p.a))]

MaxPolyLen == 100

AllowedChars ==
    {"0", "1", "2", "3", "4", "5", "6", "7", "8", "9", "+", "-", "^", ".", "x", " ", "\t"}

\* poly_validator(s) is Ok (every character of the model is ASCII)
PolyValidator(s) == Len(s) <= MaxPolyLen /\ \A j \in 1..Len(s) : s[j] \in AllowedChars

\* which of the two messages main prints for a pair of roots
Message(r) == IF IsFinite(r.root1) /\ IsFinite(r.root2) THEN "factors" ELSE "imaginary"

(***************************************************************************)
(* The inputs of the model.                                                *)
(***************************************************************************)
MaxLen == 4
MaxTerms == 3

\* the characters of the exhaustively enumerated short inputs
InputChars == {"0", "2", "3", "+", "-", "^", ".", "x", " "}

\* every string over InputChars of length at most MaxLen
ShortStrings == UNION {[1..n -> InputChars] : n \in 0..MaxLen}

\* the strings of main.rs's tests, and strings the specification discusses
TestBasic ==
    <<"x", "^", "2", " ", "+", " ", "4", "x", " ", "+", " ", "4">>
TestImaginary ==
    <<"5", "x", "^", "2", " ", "+", " ", "4", "x", " ", "+", " ", "4">>
TestFormat ==
    <<"x", "^", "2", " ", "+", " ", "-", "0", ".", "5", "x", " ">>
    \o <<"+", " ", "-", "2", ".", "5", "x", " ", "+", " ", "2", ".">>
    \o <<"5", "x", " ", "+", " ", "0", ".", "5", "x", " ", "+", " ">>
    \o <<"4", "x", " ", "+", " ", "8", "x", " ", "-", " ", "4", "x">>
    \o <<" ", "-", "+", "-", "4", "x", " ", "+", " ", "4", " ", "+">>
    \o <<" ", "1", "2", " ", "-", "-", "+", "-", "8", " ", " ", " ">>
    \o <<" ", " ", " ", " ", " ", " ", "-", "4">>
SignRun ==
    <<"-", "-", "+", "-", "8">>
MinusFiveX ==
    <<"-", "5", "x">>
PlusFiveX ==
    <<"+", "5", "x">>
FiveX ==
    <<"5", "x">>
Seven ==
    <<"7">>
TabbedSquare ==
    <<"\t", "x", " ", "^", " ", "2">>
DegreeMax ==
    <<"x", "^", "2", "5", "5">>
DegreeOverflow ==
    <<"x", "^", "2", "5", "6">>
CaretMinus ==
    <<"x", "^", "-", "2">>

SeedInputs ==
    {TestBasic, TestImaginary, TestFormat, SignRun, MinusFiveX, PlusFiveX, FiveX, Seven, TabbedSquare, DegreeMax, DegreeOverflow, CaretMinus}

\* signed terms, concatenated into longer inputs
TermPool ==
    {<<"+", "x", "^", "2">>,
     <<"-", "2", "x", "^", "2">>,
     <<"+", "4", "x">>,
     <<"+", "0", ".", "1", "x">>,
     <<"+", "0", ".", "2", "x">>,
     <<"+", "0", ".", "3", "x">>,
     <<"+", "4">>,
     <<"-", ".", "5">>,
     <<"+", "x", "^", "3">>}

RECURSIVE Concat(_)
Concat(ts) == IF ts = <<>> THEN <<>> ELSE Head(ts) \o Concat(Tail(ts))

TermInputs == {Concat(ts) : ts \in UNION {[1..n -> TermPool] : n \in 0..MaxTerms}}

\* inputs of the form "Cx^D"
CoefPool ==
    {<<"5">>,
     <<"0", ".", "5">>,
     <<"1", "2", ".", "2", "5">>,
     <<"-", "3">>,
     <<"+", ".", "5">>,
     <<"7", ".">>,
     <<"0">>,
     <<"-", "0">>,
     <<"0", ".", "1">>}

SingleTermInputs == {C \o <<"x", "^", D>> : C \in CoefPool, D \in {"0", "1", "2"}}

Inputs == ShortStrings \cup SeedInputs \cup TermInputs \cup SingleTermInputs

(***************************************************************************)
(* The state machine.  pc is the position of the one thread:               *)
(*   "main"   main, before the validator has run                           *)
(*   "from"   Polynomial::from entered                                     *)
(*   "scan"   in the scan loop, about to run iteration i (or to leave it)  *)
(*   "built"  Polynomial::from returned poly                               *)
(*   "rooted" roots returned                                               *)
(*   "done"   main printed; "rejected" the validator refused the argument; *)
(*   "panic"  an unwrap in Subpolynomial::from panicked                    *)
(***************************************************************************)
VARIABLES polynomial_str, polynomial, i, subpoly_buffer, subpoly_vector,
          pc, poly, roots, output

vars == <<polynomial_str, polynomial, i, subpoly_buffer, subpoly_vector,
          pc, poly, roots, output>>

NoRoots == [root1 |-> FNaN, root2 |-> FNaN]

InitAt(start, inputs) ==
    /\ polynomial_str \in inputs
    /\ polynomial = <<>>
    /\ i = 0
    /\ subpoly_buffer = <<>>
    /\ subpoly_vector = <<>>
    /\ pc = start
    /\ poly = NoPoly
    /\ roots = NoRoots
    /\ output = "none"

\* a call of Polynomial::from
Init == InitAt("from", Inputs)

\* lines 78-85: strip the white space, empty vector and buffer
StripInput ==
    /\ pc = "from"
    /\ polynomial' = Strip(polynomial_str)
    /\ i' = 0
    /\ subpoly_buffer' = <<>>
    /\ subpoly_vector' = <<>>
    /\ pc' = "scan"
    /\ UNCHANGED <<polynomial_str, poly, roots, output>>

\* lines 86-113: iteration i of the scan loop
ScanStep ==
    /\ pc = "scan"
    /\ i <= Len(polynomial)
    /\ \E st \in {ScanBody(polynomial, i,
                           [buffer |-> subpoly_buffer, vector |-> subpoly_vector,
                            ok |-> TRUE])} :
           IF st.ok
           THEN /\ subpoly_buffer' = st.buffer
                /\ subpoly_vector' = st.vector
                /\ i' = i + 1
                /\ pc' = "scan"
           ELSE /\ pc' = "panic"
                /\ UNCHANGED <<subpoly_buffer, subpoly_vector, i>>
    /\ UNCHANGED <<polynomial_str, polynomial, poly, roots, output>>

\* lines 115-129: the loop is over, fold the vector into the Polynomial
Build ==
    /\ pc = "scan"
    /\ i > Len(polynomial)
    /\ poly' = BuildPolynomial(subpoly_vector)
    /\ pc' = "built"
    /\ UNCHANGED <<polynomial_str, polynomial, i, subpoly_buffer, subpoly_vector,
                   roots, output>>

Next == StripInput \/ ScanStep \/ Build

Spec == Init /\ [][Next]_vars

(***************************************************************************)
(* main: validate the argument, build the Polynomial, solve, print.        *)
(***************************************************************************)
MaxCoef == 3

Digit(n) == CHOOSE c \in Digits : DigitVal(c) = n

\* a one-digit integer written with its sign
SignedDigit(n) == IF n < 0 THEN <<"-", Digit(-n)>> ELSE <<"+", Digit(n)>>

\* the quadratics with one-digit integer coefficients: "+ax^2+bx+c"
GridInputs ==
    {SignedDigit(a) \o <<"x", "^", "2">> \o SignedDigit(b) \o <<"x">> \o SignedDigit(c) :
        a \in -MaxCoef..MaxCoef, b \in -MaxCoef..MaxCoef, c \in -MaxCoef..MaxCoef}

\* an argument the validator refuses
RejectedInput == <<"2", "*", "x">>

MainInputs == GridInputs \cup SeedInputs \cup SingleTermInputs \cup {RejectedInput}

InitMain == InitAt("main", MainInputs)

\* lines 160-174: clap runs poly_validator; main goes on only if it is Ok
Validate ==
    /\ pc = "main"
    /\ pc' = IF PolyValidator(polynomial_str) THEN "from" ELSE "rejected"
    /\ UNCHANGED <<polynomial_str, polynomial, i, subpoly_buffer, subpoly_vector,
                   poly, roots, output>>

\* line 175
CallRoots ==
    /\ pc = "built"
    /\ roots' = Roots(poly)
    /\ pc' = "rooted"
    /\ UNCHANGED <<polynomial_str, polynomial, i, subpoly_buffer, subpoly_vector,
                   poly, output>>

\* lines 176-183
PrintFactors ==
    /\ pc = "rooted"
    /\ output' = Message(roots)
    /\ pc' = "done"
    /\ UNCHANGED <<polynomial_str, polynomial, i, subpoly_buffer, subpoly_vector,
                   poly, roots>>

NextMain == Validate \/ StripInput \/ ScanStep \/ Build \/ CallRoots \/ PrintFactors

SpecMain == InitMain /\ [][NextMain]_vars

(***************************************************************************)
(* The terms of an input as the specification describes them: the maximal  *)
(* runs of characters other than signs in the stripped string p, each with *)
(* the one character before it.  Positions are 1-based.                    *)
(***************************************************************************)
RunStarts(p) == {j \in 1..Len(p) : p[j] \notin Signs /\ (j = 1 \/ p[j - 1] \in Signs)}

NumRuns(p) == Cardinality(RunStarts(p))

\* the position where the run that starts at j ends
RunEnd(p, j) ==
    CHOOSE e \in j..Len(p) : /\ \A m \in j..e : p[m] \notin Signs
                             /\ e = Len(p) \/ p[e + 1] \in Signs

\* the position where run k starts, runs counted from the left
RunStart(p, k) ==
    CHOOSE j \in RunStarts(p) : Cardinality({h \in RunStarts(p) : h <= j}) = k

RunText(p, k) == SubSeq(p, RunStart(p, k), RunEnd(p, RunStart(p, k)))

\* the character immediately before run k, or nothing when the run starts the string
RunSign(p, k) == IF RunStart(p, k) > 1 THEN <<p[RunStart(p, k) - 1]>> ELSE <<>>

\* the text of term k with its sign
TermText(p, k) == RunSign(p, k) \o RunText(p, k)

\* the runs that end before the character at 0-based index n
RunsEndedBefore(p, n) == Cardinality({j \in RunStarts(p) : RunEnd(p, j) < n})

\* the non-sign characters that end just before the character at 0-based index n
TrailingRun(p, n) ==
    SubSeq(p, n + 1 - Cardinality({j \in 1..n : \A m \in j..n : p[m] \notin Signs}), n)

HasX(t) == \E j \in 1..Len(t) : t[j] = "x"

\* the text before the first "x", or all of it
BeforeX(t) ==
    IF HasX(t)
    THEN SubSeq(t, 1, (CHOOSE j \in 1..Len(t) : t[j] = "x" /\ \A h \in 1..(j - 1) : t[h] # "x") - 1)
    ELSE t

\* a "^" that is not the last character: the term has an exponent to read
HasExponent(t) ==
    \E j \in 1..(Len(t) - 1) : t[j] = "^" /\ \A h \in 1..(j - 1) : t[h] # "^"

\* the text after the first "^"
ExponentText(t) ==
    SubSeq(t, (CHOOSE j \in 1..Len(t) : t[j] = "^" /\ \A h \in 1..(j - 1) : t[h] # "^") + 1,
           Len(t))

AllDigits(t) == Len(t) >= 1 /\ \A j \in 1..Len(t) : t[j] \in Digits

\* the number written by a few decimal digits
RECURSIVE DecimalValue(_)
DecimalValue(ds) ==
    IF ds = <<>> THEN 0
    ELSE 10 * DecimalValue(SubSeq(ds, 1, Len(ds) - 1)) + DigitVal(ds[Len(ds)])

RECURSIVE DropZeros(_)
DropZeros(ds) == IF ds # <<>> /\ Head(ds) = "0" THEN DropZeros(Tail(ds)) ELSE ds

Unsigned(t) == IF Len(t) > 0 /\ t[1] \in Signs THEN Tail(t) ELSE t

\* a floating-point literal over the characters of the model
IsFloatLiteral(t) ==
    /\ \A j \in 1..Len(Unsigned(t)) : Unsigned(t)[j] \in Digits \cup {"."}
    /\ Cardinality({j \in 1..Len(Unsigned(t)) : Unsigned(t)[j] = "."}) <= 1
    /\ \E j \in 1..Len(Unsigned(t)) : Unsigned(t)[j] \in Digits

\* an unsigned 8-bit integer literal
IsU8Literal(t) ==
    /\ AllDigits(t)
    /\ Len(DropZeros(t)) <= 3
    /\ DecimalValue(DropZeros(t)) <= U8Max

\* the coefficent and the degree of the term both parse
TermValid(t) ==
    /\ BeforeX(t) \in {<<>>, <<"+">>, <<"-">>} \/ IsFloatLiteral(BeforeX(t))
    /\ HasExponent(t) => IsU8Literal(ExponentText(t))

(***************************************************************************)
(* Exact values: an f64 that is a multiple of 1/4 below 2^ExactBits        *)
(* quarters is read as its number of quarters, an integer.  Sums, products *)
(* and square roots of such values are computed on the integers.           *)
(***************************************************************************)
ExactBits == 11

IsQuarters(x, bits) ==
    /\ IsFinite(x)
    /\ \/ x.m = <<>>
       \/ /\ x.e + 2 < 0
          /\ BigBitLen(x.m) + x.e + 2 <= bits
          /\ BigLowZero(x.m, -(x.e + 2))

BigToNat(b) == Limb(b, 1) + Base * Limb(b, 2)

Quarters(x) ==
    IF x.m = <<>> THEN 0
    ELSE (IF x.s = 1 THEN -1 ELSE 1) * BigToNat(BigShr(x.m, -(x.e + 2)))

IsExact(x) == IsQuarters(x, ExactBits)

\* x is exactly n quarters
IsValue(x, n) == IsQuarters(x, 2 * ExactBits) /\ Quarters(x) = n

\* the term with coefficent n quarters and degree d
IsTerm(t, n, d) == IsValue(t.coefficent, n) /\ t.degree = d

Abs(n) == IF n < 0 THEN -n ELSE n

(***************************************************************************)
(* The claims about the scan and the per-term parse, under Spec.           *)
(***************************************************************************)
Scanned == pc \in {"scan", "built", "panic"}

Built(input) == pc = "built" /\ polynomial_str = input

(* The terms to look at in a state: the one pushed last while the scan     *)
(* runs, and all of them once it has ended.  The vector only grows, so     *)
(* every term is looked at when it is pushed and again at the end.         *)
TermsInView ==
    IF pc = "scan" THEN {Len(subpoly_vector)} \ {0} ELSE 1..Len(subpoly_vector)

(* C1: the sign of every term produced is decided by the one character     *)
(* immediately before its run in the stripped string: the term is what its *)
(* unsigned text gives, negated exactly when that character is "-"; "+"    *)
(* or no character leaves it positive, and earlier signs of a run of signs *)
(* count for nothing.  "-5x" gives (-5, 1), "+5x" and "5x" give (5, 1),    *)
(* "--+-8" gives -8 and the test string gives a = 1, b = 4, c = 4.         *)
C1_SignResolution ==
    /\ Scanned =>
         \A k \in TermsInView :
            \E unsigned \in {SubpolynomialFrom(RunText(polynomial, k))} :
               /\ unsigned.ok
               /\ subpoly_vector[k].degree = unsigned.degree
               /\ subpoly_vector[k].coefficent =
                    IF RunSign(polynomial, k) = <<"-">>
                    THEN FNeg(unsigned.coefficent)
                    ELSE unsigned.coefficent
    /\ Built(MinusFiveX) => Len(subpoly_vector) = 1 /\ IsTerm(subpoly_vector[1], -20, 1)
    /\ Built(PlusFiveX) => Len(subpoly_vector) = 1 /\ IsTerm(subpoly_vector[1], 20, 1)
    /\ Built(FiveX) => Len(subpoly_vector) = 1 /\ IsTerm(subpoly_vector[1], 20, 1)
    /\ Built(SignRun) => Len(subpoly_vector) = 1 /\ IsTerm(subpoly_vector[1], -32, 0)
    /\ Built(TestFormat) => IsValue(poly.a, 4) /\ IsValue(poly.b, 16) /\ IsValue(poly.c, 16)

\* "--+-8" has been parsed, into the one term -8
C1_Witness ==
    /\ Built(SignRun)
    /\ Len(subpoly_vector) = 1
    /\ RunSign(polynomial, 1) = <<"-">>
    /\ IsTerm(subpoly_vector[1], -32, 0)

(* C5: a term whose text before the first "x" is empty, "+" or "-" has the *)
(* coefficent 1 with that sign; a term without "^", or with "^" as its     *)
(* last character, has degree 1 if it holds an "x" and 0 if not.  "x" is   *)
(* (1, 1), "-x" is (-1, 1), "x^2" is (1, 2) and "7" is (7, 0).             *)
C5_ImplicitValues ==
    /\ Scanned =>
         \A k \in TermsInView :
            /\ BeforeX(TermText(polynomial, k)) \in {<<>>, <<"+">>, <<"-">>}
                 => IsValue(subpoly_vector[k].coefficent,
                            IF BeforeX(TermText(polynomial, k)) = <<"-">> THEN -4 ELSE 4)
            /\ ~HasExponent(TermText(polynomial, k))
                 => subpoly_vector[k].degree =
                      IF HasX(TermText(polynomial, k)) THEN 1 ELSE 0
    /\ Built(<<"x">>) => Len(subpoly_vector) = 1 /\ IsTerm(subpoly_vector[1], 4, 1)
    /\ Built(<<"-", "x">>) => Len(subpoly_vector) = 1 /\ IsTerm(subpoly_vector[1], -4, 1)
    /\ Built(<<"x", "^", "2">>) => Len(subpoly_vector) = 1 /\ IsTerm(subpoly_vector[1], 4, 2)
    /\ Built(Seven) => Len(subpoly_vector) = 1 /\ IsTerm(subpoly_vector[1], 28, 0)

\* "-x^" has been parsed: the coefficent and the degree are both implicit
C5_Witness ==
    /\ Built(<<"-", "x", "^">>)
    /\ Len(subpoly_vector) = 1
    /\ BeforeX(TermText(polynomial, 1)) = <<"-">>
    /\ ~HasExponent(TermText(polynomial, 1))
    /\ IsTerm(subpoly_vector[1], -4, 1)

(* C7: Polynomial::from ends in an error exactly when some term does not   *)
(* parse.  It then stops at the first such term from the left, with the    *)
(* terms before it parsed, takes no further step and has produced no       *)
(* Polynomial; when every term parses it produces one, from all the terms. *)
C7_ParseFailureFatal ==
    /\ pc # "built" => poly = NoPoly
    /\ Scanned => \A k \in TermsInView : TermValid(TermText(polynomial, k))
    /\ pc = "panic" =>
         /\ Len(subpoly_vector) < NumRuns(polynomial)
         /\ ~TermValid(TermText(polynomial, Len(subpoly_vector) + 1))
         /\ i = RunEnd(polynomial, RunStart(polynomial, Len(subpoly_vector) + 1))
         /\ ~ENABLED Next
    /\ pc = "built" =>
         /\ Len(subpoly_vector) = NumRuns(polynomial)
         /\ poly # NoPoly

\* the scan has stopped at a second term that does not parse, after a first that did
C7_Witness ==
    /\ pc = "panic"
    /\ Len(subpoly_vector) = 1
    /\ NumRuns(polynomial) >= 2
    /\ ~TermValid(TermText(polynomial, 2))
    /\ poly = NoPoly

(* C9, as the specification has it: every term produced has a degree in    *)
(* {0, 1, 2}.                                                              *)
C9_DegreeAtMostTwo ==
    PolyValidator(polynomial_str) =>
        \A k \in 1..Len(subpoly_vector) : subpoly_vector[k].degree \in {0, 1, 2}

(* C9, amended: every term produced has a degree in 0..255; a degree       *)
(* outside {0, 1, 2} is the number that the digits after the term's "^"    *)
(* write, and a term with those digits is produced with that degree.       *)
C9_DegreeIsU8 ==
    PolyValidator(polynomial_str) /\ Scanned =>
        \A k \in TermsInView :
           /\ subpoly_vector[k].degree \in 0..U8Max
           /\ HasExponent(TermText(polynomial, k))
                => /\ AllDigits(ExponentText(TermText(polynomial, k)))
                   /\ subpoly_vector[k].degree =
                        DecimalValue(DropZeros(ExponentText(TermText(polynomial, k))))
           /\ ~HasExponent(TermText(polynomial, k)) => subpoly_vector[k].degree \in {0, 1}

\* "x^255" has been parsed, into a term of degree 255
C9_Witness ==
    /\ Built(DegreeMax)
    /\ PolyValidator(polynomial_str)
    /\ Len(subpoly_vector) = 1
    /\ subpoly_vector[1].degree = U8Max

(* C10: at every position i of the scan the buffer is the maximal run of   *)
(* non-sign characters that ends just before i, so the look-back index     *)
(* i - len - 1 is negative or the index of a sign; the terms produced are  *)
(* the runs that have ended, one term per run from the left, and signs     *)
(* with nothing after them give no term.  "x^-2" gives the two terms       *)
(* (1, 1) and (-2, 0).                                                     *)
C10_Segmentation ==
    /\ pc = "scan" /\ i <= Len(polynomial) =>
         /\ subpoly_buffer = TrailingRun(polynomial, i)
         /\ subpoly_buffer # <<>> =>
              \/ i - Len(subpoly_buffer) - 1 < 0
              \/ polynomial[i - Len(subpoly_buffer)] \in Signs
         /\ Len(subpoly_vector) = RunsEndedBefore(polynomial, i)
    /\ pc = "built" => subpoly_buffer = <<>> /\ Len(subpoly_vector) = NumRuns(polynomial)
    /\ Built(CaretMinus) =>
         /\ Len(subpoly_vector) = 2
         /\ IsTerm(subpoly_vector[1], 4, 1)
         /\ IsTerm(subpoly_vector[2], -8, 0)

\* "x^-2" has been parsed, into two terms
C10_Witness ==
    /\ Built(CaretMinus)
    /\ NumRuns(polynomial) = 2
    /\ Len(subpoly_vector) = 2
    /\ subpoly_vector[2].degree = 0

(***************************************************************************)
(* The claims about the fold, under Spec.                                  *)
(***************************************************************************)
\* term k of p with a sign in front, "+" when the string has none
SignedTerm(p, k) == (IF RunSign(p, k) = <<>> THEN <<"+">> ELSE RunSign(p, k)) \o RunText(p, k)

SignedTerms(p) == [k \in 1..NumRuns(p) |-> SignedTerm(p, k)]

\* p is its signed terms one after the other, and nothing else
IsTermList(p) == Concat(SignedTerms(p)) \in {p, <<"+">> \o p}

Orders(n) == {f \in [1..n -> 1..n] : \A a, b \in 1..n : f[a] = f[b] => a = b}

\* the terms ts written in the order f
Permuted(ts, f) == Concat([k \in 1..Len(ts) |-> ts[f[k]]])

\* the f64 sum of the coefficents of degree d, added to acc one by one from the left
RECURSIVE FoldFrom(_, _, _)
FoldFrom(acc, terms, d) ==
    IF terms = <<>> THEN acc
    ELSE FoldFrom(IF Head(terms).degree = d THEN FAdd(acc, Head(terms).coefficent) ELSE acc,
                  Tail(terms), d)

\* the sum of the coefficents of degree d on the integers, in quarters
RECURSIVE SumQuarters(_, _)
SumQuarters(terms, d) ==
    IF terms = <<>> THEN 0
    ELSE (IF Head(terms).degree = d THEN Quarters(Head(terms).coefficent) ELSE 0)
         + SumQuarters(Tail(terms), d)

AllExact(terms) == \A k \in 1..Len(terms) : IsExact(terms[k].coefficent)

\* every order of the terms of the input gives the Polynomial of the state
SameInEveryOrder ==
    \A f \in Orders(NumRuns(polynomial)) :
        PolynomialFrom(Permuted(SignedTerms(polynomial), f)) = [ok |-> TRUE, poly |-> poly]

(* C2, as the specification has it: a, b and c are the sums of the         *)
(* coefficents of the terms of degree 2, 1 and 0, and every permutation of *)
(* the signed terms of the input gives the same a, b and c.                *)
C2_OrderIndependent ==
    pc = "built" =>
        /\ poly.a = FoldFrom(FZero(0), subpoly_vector, 2)
        /\ poly.b = FoldFrom(FZero(0), subpoly_vector, 1)
        /\ poly.c = FoldFrom(FZero(0), subpoly_vector, 0)
        /\ IsTermList(polynomial) => SameInEveryOrder

(* C2, amended: a, b and c are the f64 sums of the coefficents of degree   *)
(* 2, 1 and 0, each added to 0.0 in the order of the input and rounded at  *)
(* every addition (an empty bucket gives 0.0).  When every coefficent is   *)
(* exact (a multiple of 1/4 of bounded size) no addition rounds: a, b and  *)
(* c are the exact sums, and every permutation of the signed terms gives   *)
(* the same a, b and c.                                                    *)
C2_Aggregation ==
    pc = "built" =>
        /\ poly.a = FoldFrom(FZero(0), subpoly_vector, 2)
        /\ poly.b = FoldFrom(FZero(0), subpoly_vector, 1)
        /\ poly.c = FoldFrom(FZero(0), subpoly_vector, 0)
        /\ AllExact(subpoly_vector) =>
             /\ IsValue(poly.a, SumQuarters(subpoly_vector, 2))
             /\ IsValue(poly.b, SumQuarters(subpoly_vector, 1))
             /\ IsValue(poly.c, SumQuarters(subpoly_vector, 0))
             /\ IsTermList(polynomial) => SameInEveryOrder

\* three exact terms have been summed, the first and the last into one bucket
C2_Witness ==
    /\ pc = "built"
    /\ IsTermList(polynomial)
    /\ Len(subpoly_vector) = 3
    /\ AllExact(subpoly_vector)
    /\ subpoly_vector[1].degree = 1
    /\ subpoly_vector[2].degree = 0
    /\ subpoly_vector[3].degree = 1
    /\ IsValue(poly.b, 32)
    /\ IsValue(poly.c, -2)

\* the input is "Cx^D" for a decimal C and a D of "0", "1" or "2"
IsSingleTerm(str) ==
    /\ Len(str) >= 4
    /\ str[Len(str) - 2] = "x"
    /\ str[Len(str) - 1] = "^"
    /\ str[Len(str)] \in {"0", "1", "2"}
    /\ IsFloatLiteral(SubSeq(str, 1, Len(str) - 3))

\* the number of digits of a decimal after its "."
FractionDigits(t) == Cardinality({j \in 1..Len(t) : \E h \in 1..(j - 1) : t[h] = "."})

\* twice the distance of L from R is at most U
WithinHalf(L, R, U) ==
    BigCmp(BigMulSmall(IF BigCmp(L, R) >= 0 THEN BigSub(L, R) ELSE BigSub(R, L), 2), U) <= 0

(* v is an f64 nearest to the decimal t (at most half a unit of its last   *)
(* place away), with the sign of t unless both are zero.                   *)
IsNearest(v, t) ==
    LET N == DecimalValue(SelectSeq(t, LAMBDA c : c \in Digits))
        k == FractionDigits(t)
    IN  /\ IsFinite(v)
        /\ IF N = 0 THEN v.m = <<>>
           ELSE /\ v.s = (IF t[1] = "-" THEN 1 ELSE 0)
                /\ BigBitLen(v.m) = MantBits
                /\ v.e < 0
                /\ WithinHalf(BigMul(v.m, BigFromNat(10^k)), BigShl(BigFromNat(N), -v.e),
                              BigFromNat(10^k))

(* C6: for an input "Cx^D" with D in {0, 1, 2} and C a decimal, the        *)
(* Polynomial has C (the f64 nearest to the decimal) in a for D = 2, in b  *)
(* for D = 1 and in c for D = 0, and 0 in the other two.                   *)
C6_SingleTerm ==
    pc = "built" /\ IsSingleTerm(polynomial_str) =>
        LET D == polynomial_str[Len(polynomial_str)]
            C == SubSeq(polynomial_str, 1, Len(polynomial_str) - 3)
        IN  /\ IF D = "2" THEN IsNearest(poly.a, C) ELSE IsValue(poly.a, 0)
            /\ IF D = "1" THEN IsNearest(poly.b, C) ELSE IsValue(poly.b, 0)
            /\ IF D = "0" THEN IsNearest(poly.c, C) ELSE IsValue(poly.c, 0)

\* "0.1x^2" has been parsed: a is the f64 nearest to 1/10, which is not 1/10
C6_Witness ==
    /\ Built(<<"0", ".", "1", "x", "^", "2">>)
    /\ IsSingleTerm(polynomial_str)
    /\ ~FIsZero(poly.a)
    /\ ~IsExact(poly.a)
    /\ FIsZero(poly.b)
    /\ FIsZero(poly.c)

\* p without term k and without the one character before it
WithoutTerm(p, k) ==
    SubSeq(p, 1, RunStart(p, k) - 1 - Len(RunSign(p, k)))
        \o SubSeq(p, RunEnd(p, RunStart(p, k)) + 1, Len(p))

(* C8: a term of degree 3..255 raises no error and adds nothing to a, b or *)
(* c: the Polynomial is the one of the input without that term, and an     *)
(* input with no other terms gives a = b = c = 0.                          *)
C8_UnsupportedDropped ==
    pc = "built" =>
        /\ \A k \in 1..Len(subpoly_vector) :
              subpoly_vector[k].degree \notin {0, 1, 2}
                 => PolynomialFrom(WithoutTerm(polynomial, k)) = [ok |-> TRUE, poly |-> poly]
        /\ (\A k \in 1..Len(subpoly_vector) : subpoly_vector[k].degree \notin {0, 1, 2})
              => IsValue(poly.a, 0) /\ IsValue(poly.b, 0) /\ IsValue(poly.c, 0)

\* a term of degree 3 has been dropped between two terms that count
C8_Witness ==
    /\ pc = "built"
    /\ Len(subpoly_vector) = 3
    /\ subpoly_vector[1].degree = 1
    /\ subpoly_vector[2].degree = 3
    /\ subpoly_vector[3].degree = 2
    /\ ~FIsZero(poly.a)
    /\ ~FIsZero(poly.b)

(***************************************************************************)
(* The claims about roots and main, under SpecMain.  For a Polynomial with *)
(* exact coefficents the discriminant and the roots are computed on the    *)
(* integers: with a = A/4, b = B/4 and c = C/4 the discriminant is         *)
(* (B*B - 4*A*C)/16 and a root (-B + S)/(2*A) is 2*(S - B)/A quarters.     *)
(***************************************************************************)
Solved == pc \in {"rooted", "done"}

ExactPoly == IsExact(poly.a) /\ IsExact(poly.b) /\ IsExact(poly.c)

ExactDiscriminant ==
    Quarters(poly.b) * Quarters(poly.b) - 4 * Quarters(poly.a) * Quarters(poly.c)

NonFinite == ~IsFinite(roots.root1) \/ ~IsFinite(roots.root2)

\* x < y for finite x and y
FLess(x, y) == FIsNegative(FSub(x, y))

(* C3: roots has a component that is not finite, and main prints the       *)
(* "imaginary" message, exactly when a = 0 or b*b - 4*a*c < 0; otherwise   *)
(* both roots are finite and main prints the two roots.  With the roots    *)
(* in hand main always prints one of the two messages.  The condition is   *)
(* read on the integers for exact coefficents and in f64 arithmetic for    *)
(* all.                                                                    *)
C3_ImaginaryDetection ==
    /\ Solved /\ ExactPoly =>
         (NonFinite <=> (Quarters(poly.a) = 0 \/ ExactDiscriminant < 0))
    /\ Solved =>
         (NonFinite <=>
            \/ FIsZero(poly.a)
            \/ FIsNegative(FSub(FMul(poly.b, poly.b),
                                FMul(FMul(FFromInt(4), poly.a), poly.c))))
    /\ pc = "done" => output = (IF NonFinite THEN "imaginary" ELSE "factors")
    /\ pc = "rooted" => ENABLED PrintFactors
    /\ pc = "done" /\ polynomial_str = TestImaginary => output = "imaginary"
    /\ pc = "done" /\ polynomial_str = TestBasic => output = "factors"

\* main has printed "imaginary" for a quadratic with a negative discriminant
C3_Witness ==
    /\ pc = "done"
    /\ ExactPoly
    /\ Quarters(poly.a) # 0
    /\ ExactDiscriminant < 0
    /\ NonFinite
    /\ output = "imaginary"

(* C4: for a # 0 and a discriminant d >= 0, root1 is (-b + sqrt(d))/(2a)   *)
(* and root2 is (-b - sqrt(d))/(2a), in that order: whenever d is a square *)
(* and the quotient is exact, the roots are exactly those numbers; for     *)
(* d > 0 root1 is the larger root if a > 0 and the smaller if a < 0; for   *)
(* d = 0 both are equal to -b/(2a).  "x^2 + 4x + 4" gives (-2, -2).        *)
C4_RootCorrectness ==
    /\ Solved /\ ExactPoly /\ Quarters(poly.a) # 0 /\ ExactDiscriminant >= 0 =>
         LET A == Quarters(poly.a)
             B == Quarters(poly.b)
             C == Quarters(poly.c)
         IN  /\ \A S \in 0..(Abs(A) + Abs(B) + Abs(C)) :
                   S * S = ExactDiscriminant =>
                      /\ (2 * (S - B)) % Abs(A) = 0 =>
                            /\ IsQuarters(roots.root1, 2 * ExactBits)
                            /\ Quarters(roots.root1) * A = 2 * (S - B)
                      /\ (2 * (-S - B)) % Abs(A) = 0 =>
                            /\ IsQuarters(roots.root2, 2 * ExactBits)
                            /\ Quarters(roots.root2) * A = 2 * (-S - B)
             /\ ExactDiscriminant > 0 =>
                   IF A > 0 THEN FLess(roots.root2, roots.root1)
                            ELSE FLess(roots.root1, roots.root2)
             /\ ExactDiscriminant = 0 =>
                   /\ FEq(roots.root1, roots.root2)
                   /\ FEq(roots.root1, FDiv(FNeg(poly.b), FMul(FFromInt(2), poly.a)))
    /\ Solved /\ polynomial_str = TestBasic =>
         IsValue(roots.root1, -8) /\ IsValue(roots.root2, -8)

\* x^2 + x - 2 has been solved: root1 is 1 and root2 is -2
C4_Witness ==
    /\ pc = "done"
    /\ ExactPoly
    /\ Quarters(poly.a) = 4
    /\ Quarters(poly.b) = 4
    /\ Quarters(poly.c) = -8
    /\ IsValue(roots.root1, 4)
    /\ IsValue(roots.root2, -8)

====
